---- MODULE Spec2Model ----
\* Model of dilbert.py: the incremental synchronisation of a daily comic
\* archive into an sqlite table, followed by the regeneration of an Atom feed.
\*
\* Dates (datetime.date) are day ordinals counted from Epoch.  Text is a
\* sequence of character codes, so that ISO formatting, ISO parsing and the
\* store's text ordering are computed and not assumed.
EXTENDS Integers, Sequences, FiniteSets, TLC

\* ------------------------------------------------------------------ bounds
\* The ordinal of "today" when the model starts (Epoch + StartDay).
StartDay == 10
\* How many times midnight may pass while the model runs.
MaxTicks == 1
\* How many times the clock may be set back by a day.
MaxSetBacks == 1

\* ------------------------------------------------------- program constants
\* timedelta(days=10): the bootstrap distance of an empty store.
BootstrapDays == 10
\* self.comics(10): the number of feed entries.
FeedSize == 10

\* The invocations of the program: one at a time, or two side by side.
Procs == {1, 2}
SeqProcs == {1}

\* -------------------------------------------------------------- calendar
\* The calendar date of ordinal 0: Saturday 2024-02-24.
Epoch == <<2024, 2, 24>>

IsLeap(y) == (y % 4 = 0 /\ y % 100 # 0) \/ y % 400 = 0

DaysInMonth(y, m) ==
    IF m = 2 THEN (IF IsLeap(y) THEN 29 ELSE 28)
    ELSE IF m \in {4, 6, 9, 11} THEN 30 ELSE 31

\* The calendar day after <<y, m, d>>.
NextDay(ymd) ==
    LET y == ymd[1]  m == ymd[2]  d == ymd[3] IN
    IF d < DaysInMonth(y, m) THEN <<y, m, d + 1>>
    ELSE IF m < 12 THEN <<y, m + 1, 1>>
    ELSE <<y + 1, 1, 1>>

\* The calendar day before <<y, m, d>>.
PrevDay(ymd) ==
    LET y == ymd[1]  m == ymd[2]  d == ymd[3] IN
    IF d > 1 THEN <<y, m, d - 1>>
    ELSE IF m > 1 THEN <<y, m - 1, DaysInMonth(y, m - 1)>>
    ELSE <<y - 1, 12, 31>>

\* year, month and day of a date object.
RECURSIVE Ymd(_)
Ymd(n) == IF n = 0 THEN Epoch
          ELSE IF n > 0 THEN NextDay(Ymd(n - 1))
          ELSE PrevDay(Ymd(n + 1))

\* Whether calendar day a is before calendar day b.
Before(a, b) ==
    \/ a[1] < b[1]
    \/ a[1] = b[1] /\ a[2] < b[2]
    \/ a[1] = b[1] /\ a[2] = b[2] /\ a[3] < b[3]

\* The date object of a year, month and day.
RECURSIVE Ordinal(_)
Ordinal(ymd) == IF ymd = Epoch THEN 0
                ELSE IF Before(ymd, Epoch) THEN Ordinal(NextDay(ymd)) - 1
                ELSE 1 + Ordinal(PrevDay(ymd))

\* Decimal digits as character codes ("0" is 48).
Digits2(n) == <<48 + (n \div 10), 48 + (n % 10)>>
Digits4(n) == <<48 + (n \div 1000), 48 + ((n \div 100) % 10)>> \o Digits2(n % 100)

\* date.isoformat() and str(date): "YYYY-MM-DD" ("-" is 45).
IsoFormat(n) ==
    LET t == Ymd(n) IN Digits4(t[1]) \o <<45>> \o Digits2(t[2]) \o <<45>> \o Digits2(t[3])

\* The number written by the digits s[a..b].
RECURSIVE Number(_, _, _)
Number(s, a, b) == IF a > b THEN 0 ELSE 10 * Number(s, a, b - 1) + (s[b] - 48)

\* date.fromisoformat(s).
FromIsoFormat(s) == Ordinal(<<Number(s, 1, 4), Number(s, 6, 7), Number(s, 9, 10)>>)

\* Text comparison of the store (BINARY collation: byte by byte, then length).
RECURSIVE TextLess(_, _)
TextLess(a, b) ==
    IF b = <<>> THEN FALSE
    ELSE IF a = <<>> THEN TRUE
    ELSE IF Head(a) # Head(b) THEN Head(a) < Head(b)
    ELSE TextLess(Tail(a), Tail(b))

\* ---------------------------------------------------------------- values
\* Python and sqlite values that are not always text: t is the type, v the
\* characters (of a str, or the decimal digits of an int; empty for None).
None == [t |-> "None", v |-> <<>>]
PyText(s) == [t |-> "str", v |-> s]
PyInt(s) == [t |-> "int", v |-> s]

\* str(x) of a value.
PyStr(x) == IF x.t = "None" THEN <<78, 111, 110, 101>> ELSE x.v

\* bool(x) of a value, as "if self.width:" takes it.
Truthy(x) ==
    IF x.t = "None" THEN FALSE
    ELSE IF x.t = "int" THEN Number(x.v, 1, Len(x.v)) # 0
    ELSE x.v # <<>>

\* What a column declared INT keeps of a text parameter: an integer when the
\* text is a decimal number, the text itself otherwise.
IntAffinity(s) ==
    IF s # <<>> /\ \A i \in 1..Len(s) : s[i] \in 48..57 THEN PyInt(s) ELSE PyText(s)

\* re.sub(' - .*$', '', alt): alt up to its first " - ".
RECURSIVE StripSuffix(_)
StripSuffix(alt) ==
    IF Len(alt) < 3 THEN alt
    ELSE IF SubSeq(alt, 1, 3) = <<32, 45, 32>> THEN <<>>
    ELSE <<Head(alt)>> \o StripSuffix(Tail(alt))

\* "{}.gif".format(pubdate.isoformat())
FileName(pubdate) == IsoFormat(pubdate) \o <<46, 103, 105, 102>>

\* ---------------------------------------------------------------- origin
\* The page of the archive for a day: the img element with the marker class.
\* Captions are blank on Sundays; some pages omit width, some omit height.
OriginPage(d) ==
    [marker |-> TRUE,
     src    |-> <<117, 47>> \o IsoFormat(d),
     alt    |-> IF d % 7 = 1 THEN <<32, 45, 32, 68>> ELSE <<65, 32, 45, 32, 68>>,
     width  |-> IF d % 3 = 0 THEN None ELSE PyText(<<57, 48, 48>>),
     height |-> IF d % 4 = 0 THEN None ELSE PyText(<<50, 56, 48>>)]

\* A page without the marker element (layout change, interstitial).
OtherPage == [marker |-> FALSE, src |-> <<>>, alt |-> <<>>, width |-> None, height |-> None]

NoPage == [marker |-> FALSE, src |-> <<0>>, alt |-> <<>>, width |-> None, height |-> None]

\* ------------------------------------------------------------ DilbertComic
\* Faulty variant: the empty title is kept.
FixTitleKeep(title) == title

\* "fix empty titles on sundays"
FixTitle(title) == IF title = <<>> THEN <<45>> ELSE title

\* DilbertComic(pubdate=..., url=..., title=..., filename=..., width=..., height=...)
\* as find_comic_by_pubdate builds it from the element el.
ComicFromPage(pubdate, el) ==
    [pubdate  |-> pubdate,
     url      |-> el.src,
     title    |-> FixTitle(StripSuffix(el.alt)),
     filename |-> FileName(pubdate),
     width    |-> el.width,
     height   |-> el.height]

NoComic == [pubdate |-> 0, url |-> <<>>, title |-> <<>>, filename |-> <<>>,
            width |-> None, height |-> None]

\* DilbertComic(row=row)
ComicFromRow(row) ==
    [id       |-> row.id,
     url      |-> row.url,
     filename |-> row.filename,
     title    |-> FixTitle(row.title),
     pubdate  |-> FromIsoFormat(row.pubdate),
     updated  |-> row.updated,
     width    |-> row.width,
     height   |-> row.height]

\* DilbertComic.tag: the img tag, as its parts.
Tag(comic, baseurl) ==
    [src |-> baseurl \o <<47>> \o comic.filename,
     alt |-> IsoFormat(comic.pubdate),
     w   |-> IF Truthy(comic.width) THEN PyStr(comic.width) ELSE <<>>,
     h   |-> IF Truthy(comic.height) THEN PyStr(comic.height) ELSE <<>>]

\* ------------------------------------------------------------------ store
\* The row the insert statement adds: every parameter is str(comic[k]); id and
\* updated are given by the table.
NewRow(comic, id, now) ==
    [id       |-> id,
     pubdate  |-> IsoFormat(comic.pubdate),
     url      |-> comic.url,
     title    |-> comic.title,
     filename |-> comic.filename,
     width    |-> IntAffinity(PyStr(comic.width)),
     height   |-> IntAffinity(PyStr(comic.height)),
     updated  |-> IsoFormat(now)]

\* Faulty variant: the table without the UNIQUE constraint on filename.
FilenameNeverTaken(rows, filename) == FALSE

\* filename TEXT UNIQUE: whether a row of the table has this filename.
FilenameTaken(rows, filename) == \E i \in 1..Len(rows) : rows[i].filename = filename

\* The first index of a row whose pubdate text no other row exceeds.
MaxPubdateIndex(rows) ==
    CHOOSE i \in 1..Len(rows) :
        /\ \A j \in 1..Len(rows) : ~TextLess(rows[i].pubdate, rows[j].pubdate)
        /\ \A j \in 1..(i - 1) : TextLess(rows[j].pubdate, rows[i].pubdate)

RemoveAt(rows, i) == SubSeq(rows, 1, i - 1) \o SubSeq(rows, i + 1, Len(rows))

\* "select ... from dilbert order by `pubdate` desc"
RECURSIVE OrderByPubdateDesc(_)
OrderByPubdateDesc(rows) ==
    IF rows = <<>> THEN <<>>
    ELSE LET i == MaxPubdateIndex(rows) IN
         <<rows[i]>> \o OrderByPubdateDesc(RemoveAt(rows, i))

\* Faulty variant: the query without its limit.
LimitAll(rows, n) == rows

\* "limit n"
Limit(rows, n) == SubSeq(rows, 1, IF Len(rows) < n THEN Len(rows) ELSE n)

\* An absent date (Python None where a date is expected), and a present one.
NoDate == <<>>
SomeDate(d) == <<d>>

\* Faulty variant: the query ordered ascending ("order by `pubdate` asc limit 1").
LatestDateAscending(rows) ==
    LET found == OrderByPubdateDesc(rows) IN
    IF found = <<>> THEN NoDate
    ELSE SomeDate(FromIsoFormat(found[Len(found)].pubdate))

\* Faulty variant: the query without "order by": the first row of the table.
LatestDateUnordered(rows) ==
    IF rows = <<>> THEN NoDate ELSE SomeDate(FromIsoFormat(rows[1].pubdate))

\* Dilbert.latest_date_in_db
LatestDateInDb(rows) ==
    LET found == Limit(OrderByPubdateDesc(rows), 1) IN
    IF found = <<>> THEN NoDate ELSE SomeDate(FromIsoFormat(found[1].pubdate))

\* Dilbert.comics(num)
Comics(rows, num) ==
    LET found == Limit(OrderByPubdateDesc(rows), num) IN
    [i \in 1..Len(found) |-> ComicFromRow(found[i])]

\* --------------------------------------------------------------------- feed
\* sys.argv[1], or its default "http://localhost".
BaseUrl == <<104, 116, 116, 112, 58, 47, 47, 108, 111, 99, 97, 108, 104, 111, 115, 116>>

\* "http://dilbert.com/strip/{}".format(pubdate), as the day after the prefix.
StripLink(pubdate) == <<47, 115, 116, 114, 105, 112, 47>> \o IsoFormat(pubdate)

\* Dilbert.feed: one item per comic of self.comics(10).
Feed(rows, baseurl) ==
    LET comics == Comics(rows, FeedSize) IN
    [i \in 1..Len(comics) |->
        [title       |-> comics[i].title,
         link        |-> StripLink(comics[i].pubdate),
         updateddate |-> comics[i].updated,
         pubdate     |-> comics[i].pubdate,
         description |-> Tag(comics[i], baseurl)]]

\* ------------------------------------------------------------------ state
VARIABLES
    today,      \* date.today(): the calendar day of the machine's clock
    backs,      \* how many times the clock has been set back
    store,      \* the rows of table dilbert, in insertion order
    nextId,     \* the next AUTOINCREMENT id of the table
    cartoons,   \* the file names present under cartoons/
    feedFile,   \* the items of dilbert.rss as last written (<<>> before)
    pc,         \* per invocation: where it is in __main__ / update()
    latest,     \* per invocation: what latest_date_in_db() returned
    start,      \* per invocation: update()'s start, after "+ 1 day"
    end,        \* per invocation: the end_date handed to _daterange
    n,          \* per invocation: _daterange's loop index
    page,       \* per invocation: the day page as fetched
    comic,      \* per invocation: the DilbertComic of the day being added
    err,        \* per invocation: the exception that ended it ("" if none)
    wrote,      \* per invocation: whether it opened and wrote the feed file
    log,        \* per invocation: its requests and statements so far,
                \*   <<operation, date, succeeded>>
    snap,       \* per invocation: the rows of the table when it started
    prev        \* per invocation slot: how the invocation before it ended

vars == <<today, backs, store, nextId, cartoons, feedFile, pc, latest, start, end, n,
          page, comic, err, wrote, log, snap, prev>>

\* Of an invocation that has ended: how (pc), whether it had stored a row, the
\* date its loop was at, and the end of its range.
NoPrev == [outcome |-> "none", stored |-> FALSE, at |-> 0, end |-> 0]

Init ==
    /\ today = StartDay
    /\ backs = 0
    /\ store = <<>>
    /\ nextId = 1
    /\ cartoons = {}
    /\ feedFile = <<>>
    /\ pc = [p \in Procs |-> "idle"]
    /\ latest = [p \in Procs |-> NoDate]
    /\ start = [p \in Procs |-> 0]
    /\ end = [p \in Procs |-> 0]
    /\ n = [p \in Procs |-> 0]
    /\ page = [p \in Procs |-> NoPage]
    /\ comic = [p \in Procs |-> NoComic]
    /\ err = [p \in Procs |-> ""]
    /\ wrote = [p \in Procs |-> FALSE]
    /\ log = [p \in Procs |-> <<>>]
    /\ snap = [p \in Procs |-> <<>>]
    /\ prev = [p \in Procs |-> NoPrev]

\* Faulty variant: the loop walks the range from its last day backwards.
PubDateDescending(p) == end[p] - n[p]

\* The date the loop of update() is at.
PubDate(p) == start[p] + n[p]

\* The invocation records an operation on the day it is at.
Logged(p, op, ok) == log' = [log EXCEPT ![p] = Append(@, <<op, PubDate(p), ok>>)]

\* Faulty variant: the exception is caught per date and the loop goes on.
RaiseSkip(p, e) ==
    /\ pc' = [pc EXCEPT ![p] = "sleep"]
    /\ err' = [err EXCEPT ![p] = e]

\* Faulty variant: the exception is caught around update() and the feed is written.
RaiseContinue(p, e) ==
    /\ pc' = [pc EXCEPT ![p] = "done"]
    /\ err' = [err EXCEPT ![p] = e]

\* An exception raised inside update(): nothing catches it, the process ends.
Raise(p, e) ==
    /\ pc' = [pc EXCEPT ![p] = "aborted"]
    /\ err' = [err EXCEPT ![p] = e]

\* Faulty variant: the day after the latest date is not taken.
NextStartSame(d) == d

\* "start = start + timedelta(days=1)"
NextStart(d) == d + 1

\* Faulty variant: the range runs one day past its end.
InRangeLoose(start_date, end_date, k) == k < (end_date - start_date) + 2

\* Faulty variant: the range ends the day before its end date.
InRangeExclusive(start_date, end_date, k) == k < (end_date - start_date)

\* Faulty variant: the number of days is taken without its sign.
InRangeAbs(start_date, end_date, k) ==
    k < (IF end_date < start_date THEN start_date - end_date
         ELSE end_date - start_date) + 1

\* Whether _daterange yields a date at index k: k in range(days + 1).
InRange(start_date, end_date, k) == k < (end_date - start_date) + 1

\* ---------------------------------------------------------------- actions
\* The clock passes midnight.
Tick ==
    /\ today < StartDay + MaxTicks
    /\ today' = today + 1
    /\ UNCHANGED <<backs, store, nextId, cartoons, feedFile, pc, latest, start, end, n,
                   page, comic, err, wrote, log, snap, prev>>

\* The clock is set back by a day (a correction, a change of time zone).
SetBack ==
    /\ backs < MaxSetBacks
    /\ backs' = backs + 1
    /\ today' = today - 1
    /\ UNCHANGED <<store, nextId, cartoons, feedFile, pc, latest, start, end, n,
                   page, comic, err, wrote, log, snap, prev>>

\* Faulty variant: the table is created anew at every start.
StartFresh(p) ==
    /\ pc[p] \in {"idle", "finished", "aborted"}
    /\ prev' = [prev EXCEPT ![p] =
                  [outcome |-> pc[p], stored |-> n[p] >= 1, at |-> PubDate(p),
                   end |-> end[p]]]
    /\ pc' = [pc EXCEPT ![p] = "update"]
    /\ latest' = [latest EXCEPT ![p] = NoDate]
    /\ start' = [start EXCEPT ![p] = 0]
    /\ end' = [end EXCEPT ![p] = 0]
    /\ n' = [n EXCEPT ![p] = 0]
    /\ page' = [page EXCEPT ![p] = NoPage]
    /\ comic' = [comic EXCEPT ![p] = NoComic]
    /\ err' = [err EXCEPT ![p] = ""]
    /\ wrote' = [wrote EXCEPT ![p] = FALSE]
    /\ log' = [log EXCEPT ![p] = <<>>]
    /\ snap' = [snap EXCEPT ![p] = <<>>]
    /\ store' = <<>>
    /\ UNCHANGED <<today, backs, nextId, cartoons, feedFile>>

\* The program is started: Dilbert(basepath, baseurl) opens the database and
\* creates the table if it is absent.
Start(p) ==
    /\ pc[p] \in {"idle", "finished", "aborted"}
    /\ prev' = [prev EXCEPT ![p] =
                  [outcome |-> pc[p], stored |-> n[p] >= 1, at |-> PubDate(p),
                   end |-> end[p]]]
    /\ pc' = [pc EXCEPT ![p] = "update"]
    /\ latest' = [latest EXCEPT ![p] = NoDate]
    /\ start' = [start EXCEPT ![p] = 0]
    /\ end' = [end EXCEPT ![p] = 0]
    /\ n' = [n EXCEPT ![p] = 0]
    /\ page' = [page EXCEPT ![p] = NoPage]
    /\ comic' = [comic EXCEPT ![p] = NoComic]
    /\ err' = [err EXCEPT ![p] = ""]
    /\ wrote' = [wrote EXCEPT ![p] = FALSE]
    /\ log' = [log EXCEPT ![p] = <<>>]
    /\ snap' = [snap EXCEPT ![p] = store]
    /\ UNCHANGED <<today, backs, store, nextId, cartoons, feedFile>>

\* update(): the latest stored date, or ten days ago; then the day after it.
ReadLatest(p) ==
    /\ pc[p] = "update"
    /\ LET found == LatestDateInDb(store) IN
       /\ latest' = [latest EXCEPT ![p] = found]
       /\ start' = [start EXCEPT ![p] =
                      NextStart(IF found = NoDate THEN today - BootstrapDays
                                ELSE found[1])]
    /\ pc' = [pc EXCEPT ![p] = "range"]
    /\ UNCHANGED <<today, backs, store, nextId, cartoons, feedFile, end, n, page, comic,
                   err, wrote, log, snap, prev>>

\* "for pubdate in _daterange(start, date.today())": the range is fixed here.
LoopStart(p) ==
    /\ pc[p] = "range"
    /\ end' = [end EXCEPT ![p] = today]
    /\ n' = [n EXCEPT ![p] = 0]
    /\ pc' = [pc EXCEPT ![p] = IF InRange(start[p], today, 0) THEN "fetch" ELSE "done"]
    /\ UNCHANGED <<today, backs, store, nextId, cartoons, feedFile, latest, start, page,
                   comic, err, wrote, log, snap, prev>>

\* find_comic_by_pubdate: the GET of the day page answers with a document.
FetchPage(p) ==
    /\ pc[p] = "fetch"
    /\ \E body \in {OriginPage(PubDate(p)), OtherPage} :
          page' = [page EXCEPT ![p] = body]
    /\ Logged(p, "fetch", TRUE)
    /\ pc' = [pc EXCEPT ![p] = "parse"]
    /\ UNCHANGED <<today, backs, store, nextId, cartoons, feedFile, latest, start, end, n,
                   comic, err, wrote, snap, prev>>

\* find_comic_by_pubdate: the GET of the day page fails (urlopen raises).
FetchPageFail(p) ==
    /\ pc[p] = "fetch"
    /\ Logged(p, "fetch", FALSE)
    /\ Raise(p, "URLError")
    /\ UNCHANGED <<today, backs, store, nextId, cartoons, feedFile, latest, start, end, n,
                   page, comic, wrote, snap, prev>>

\* find_comic_by_pubdate: the element with class img-comic, [0] of the matches
\* (IndexError when there is none), and the comic built from it.
ParseComic(p) ==
    /\ pc[p] = "parse"
    /\ IF page[p].marker
       THEN /\ comic' = [comic EXCEPT ![p] = ComicFromPage(PubDate(p), page[p])]
            /\ Logged(p, "parse", TRUE)
            /\ pc' = [pc EXCEPT ![p] = "download"]
            /\ err' = err
       ELSE /\ comic' = comic
            /\ Logged(p, "parse", FALSE)
            /\ Raise(p, "IndexError")
    /\ UNCHANGED <<today, backs, store, nextId, cartoons, feedFile, latest, start, end, n,
                   page, wrote, snap, prev>>

\* download_comic: the image is fetched and written under cartoons/.
DownloadComic(p) ==
    /\ pc[p] = "download"
    /\ cartoons' = cartoons \cup {comic[p].filename}
    /\ Logged(p, "download", TRUE)
    /\ pc' = [pc EXCEPT ![p] = "insert"]
    /\ UNCHANGED <<today, backs, store, nextId, feedFile, latest, start, end, n, page,
                   comic, err, wrote, snap, prev>>

\* Faulty variant: a failed download is ignored and the record is stored all the same.
DownloadComicFailIgnored(p) ==
    /\ pc[p] = "download"
    /\ Logged(p, "download", FALSE)
    /\ pc' = [pc EXCEPT ![p] = "insert"]
    /\ UNCHANGED <<today, backs, store, nextId, cartoons, feedFile, latest, start,
                   end, n, page, comic, err, wrote, snap, prev>>

\* download_comic: the GET of the image fails.
DownloadComicFail(p) ==
    /\ pc[p] = "download"
    /\ Logged(p, "download", FALSE)
    /\ Raise(p, "URLError")
    /\ UNCHANGED <<today, backs, store, nextId, cartoons, feedFile, latest, start, end, n,
                   page, comic, wrote, snap, prev>>

\* Faulty variant: "insert or replace": the row that has the file name is
\* deleted and the new one is stored.
WriteComicToDbReplace(p) ==
    /\ pc[p] = "insert"
    /\ store' = Append(SelectSeq(store, LAMBDA r : r.filename # comic[p].filename),
                       NewRow(comic[p], nextId, today))
    /\ nextId' = nextId + 1
    /\ Logged(p, "insert", TRUE)
    /\ pc' = [pc EXCEPT ![p] = "sleep"]
    /\ UNCHANGED <<today, backs, cartoons, feedFile, latest, start, end, n, page, comic,
                   err, wrote, snap, prev>>

\* write_comic_to_db: insert and commit; the UNIQUE filename refuses a second
\* row of the same file name (sqlite3.IntegrityError).
WriteComicToDb(p) ==
    /\ pc[p] = "insert"
    /\ IF FilenameTaken(store, comic[p].filename)
       THEN /\ UNCHANGED <<store, nextId>>
            /\ Logged(p, "insert", FALSE)
            /\ Raise(p, "IntegrityError")
       ELSE /\ store' = Append(store, NewRow(comic[p], nextId, today))
            /\ nextId' = nextId + 1
            /\ Logged(p, "insert", TRUE)
            /\ pc' = [pc EXCEPT ![p] = "sleep"]
            /\ err' = err
    /\ UNCHANGED <<today, backs, cartoons, feedFile, latest, start, end, n, page, comic,
                   wrote, snap, prev>>

\* write_comic_to_db: the statement or the commit fails for another reason
\* (database locked, disk full): sqlite3.OperationalError, nothing is stored.
WriteComicToDbFail(p) ==
    /\ pc[p] = "insert"
    /\ Logged(p, "insert", FALSE)
    /\ Raise(p, "OperationalError")
    /\ UNCHANGED <<today, backs, store, nextId, cartoons, feedFile, latest, start, end, n,
                   page, comic, wrote, snap, prev>>

\* Faulty variant: the loop steps over every other date of the range.
SleepSkip(p) ==
    /\ pc[p] = "sleep"
    /\ n' = [n EXCEPT ![p] = @ + 2]
    /\ pc' = [pc EXCEPT ![p] =
                IF InRange(start[p], end[p], n[p] + 2) THEN "fetch" ELSE "done"]
    /\ UNCHANGED <<today, backs, store, nextId, cartoons, feedFile, latest, start, end,
                   page, comic, err, wrote, log, snap, prev>>

\* time.sleep(1.2), then the next date of the range, or the end of update().
Sleep(p) ==
    /\ pc[p] = "sleep"
    /\ n' = [n EXCEPT ![p] = @ + 1]
    /\ pc' = [pc EXCEPT ![p] =
                IF InRange(start[p], end[p], n[p] + 1) THEN "fetch" ELSE "done"]
    /\ UNCHANGED <<today, backs, store, nextId, cartoons, feedFile, latest, start, end,
                   page, comic, err, wrote, log, snap, prev>>

\* __main__ after update() returned: the feed file is opened and written.
WriteFeed(p) ==
    /\ pc[p] = "done"
    /\ feedFile' = Feed(store, BaseUrl)
    /\ wrote' = [wrote EXCEPT ![p] = TRUE]
    /\ pc' = [pc EXCEPT ![p] = "finished"]
    /\ UNCHANGED <<today, backs, store, nextId, cartoons, latest, start, end, n, page,
                   comic, err, log, snap, prev>>

\* One step of invocation p.
Step(p) ==
    \/ Start(p)
    \/ ReadLatest(p)
    \/ LoopStart(p)
    \/ FetchPage(p)
    \/ FetchPageFail(p)
    \/ ParseComic(p)
    \/ DownloadComic(p)
    \/ DownloadComicFail(p)
    \/ WriteComicToDb(p)
    \/ WriteComicToDbFail(p)
    \/ Sleep(p)
    \/ WriteFeed(p)

\* The program is run again and again, one invocation at a time.
Next == Tick \/ \E p \in SeqProcs : Step(p)

Spec == Init /\ [][Next]_vars

\* The same within one calendar day, on a machine whose clock may be set back.
NextSkew == SetBack \/ \E p \in SeqProcs : Step(p)

SpecSkew == Init /\ [][NextSkew]_vars

\* The program is started once by each of two schedulers.
StartOnce(p) == pc[p] = "idle" /\ Start(p)

\* Two invocations side by side on the same database and directory, within
\* one calendar day.
NextConc ==
    \/ \E p \in Procs :
          \/ StartOnce(p)
          \/ ReadLatest(p)
          \/ LoopStart(p)
          \/ FetchPage(p)
          \/ FetchPageFail(p)
          \/ ParseComic(p)
          \/ DownloadComic(p)
          \/ DownloadComicFail(p)
          \/ WriteComicToDb(p)
          \/ WriteComicToDbFail(p)
          \/ Sleep(p)
          \/ WriteFeed(p)

SpecConc == Init /\ [][NextConc]_vars

\* ------------------------------------------------------------- properties
\* The calendar days a..b in ascending order (empty when b < a).
DaysFromTo(a, b) == [k \in 1..(b - a + 1) |-> a + (k - 1)]

\* The dates of the operations op that invocation p has issued, in order.
DatesOf(p, op) ==
    LET sel == SelectSeq(log[p], LAMBDA e : e[1] = op) IN
    [i \in 1..Len(sel) |-> sel[i][2]]

\* The dates of the rows invocation p found stored when it started, and the
\* dates of the rows stored now.
DatesIn(rows) == {FromIsoFormat(rows[i].pubdate) : i \in 1..Len(rows)}

\* update() has fixed its range: the invocation is in or after the loop.
PastRange(p) == pc[p] \in {"fetch", "parse", "download", "insert", "sleep",
                           "done", "finished", "aborted"}

\* The maximum of a non-empty set of dates.
MaxDate(S) == CHOOSE d \in S : \A e \in S : e <= d

\* C1. Resumability: when the invocation before this one was aborted after
\* committing the dates D1..Dk (k >= 1) and failing on Dk+1, this invocation's
\* range starts exactly at Dk+1, its first request is the day-fetch of Dk+1,
\* and it issues no day-fetch, download or insert for D1..Dk (nor for any
\* other date before Dk+1).
Resumability ==
    \A p \in SeqProcs :
        (prev[p].outcome = "aborted" /\ prev[p].stored /\ pc[p] # "update") =>
            LET next == prev[p].at
            IN /\ start[p] = next
               /\ PastRange(p) => end[p] >= next
               /\ log[p] # <<>> => (log[p][1][1] = "fetch" /\ log[p][1][2] = next)
               /\ \A i \in 1..Len(log[p]) : log[p][i][2] >= next

\* C1 witness: a resumed invocation that has run to its end and stored dates.
ResumedRun ==
    \E p \in SeqProcs :
        /\ prev[p].outcome = "aborted" /\ prev[p].stored
        /\ pc[p] = "finished"
        /\ Len(DatesOf(p, "insert")) >= 2

\* C2. Abort on first failure: an operation that failed for date D is the last
\* operation of its invocation, which is aborted: nothing follows it (no retry
\* of D, no operation on a later date), every operation before it was on a
\* date up to D, and no row for D is stored.
AbortOnFirstFailure ==
    \A p \in SeqProcs :
        /\ \A i \in 1..Len(log[p]) :
              log[p][i][3] = FALSE =>
                  /\ i = Len(log[p])
                  /\ pc[p] = "aborted"
                  /\ \A j \in 1..Len(log[p]) : log[p][j][2] <= log[p][i][2]
                  /\ Len(SelectSeq(log[p], LAMBDA e :
                            e[1] = log[p][i][1] /\ e[2] = log[p][i][2])) = 1
                  /\ log[p][i][2] \notin DatesIn(store)
        /\ pc[p] = "aborted" => (log[p] # <<>> /\ log[p][Len(log[p])][3] = FALSE)

\* C2 witness: an invocation aborted in the middle of its range.
AbortedMidRange ==
    \E p \in SeqProcs :
        /\ pc[p] = "aborted"
        /\ n[p] >= 1
        /\ PubDate(p) < end[p]

\* C3. Uniqueness: no step leaves two rows with the same filename (or the same
\* pubdate) in the table, and a step that runs the insert for a filename the
\* table already has ends the invocation with an error and changes no row;
\* the constraint error is raised exactly for such inserts.
UniqueFilename ==
    [][ /\ \A i, j \in 1..Len(store') :
              i # j => /\ store'[i].filename # store'[j].filename
                       /\ store'[i].pubdate # store'[j].pubdate
        /\ \A p \in Procs :
              /\ (pc[p] = "insert" /\ pc'[p] # "insert"
                    /\ \E i \in 1..Len(store) : store[i].filename = comic[p].filename)
                 => /\ store' = store
                    /\ pc'[p] = "aborted"
                    /\ err'[p] \in {"IntegrityError", "OperationalError"}
              /\ (err[p] # "IntegrityError" /\ err'[p] = "IntegrityError")
                 => /\ \E i \in 1..Len(store) : store[i].filename = comic[p].filename
                    /\ store' = store
      ]_vars

\* C3 witness: an insert was refused by the constraint.
InsertRefused ==
    \E p \in Procs :
        /\ err[p] = "IntegrityError"
        /\ \E i \in 1..Len(store) : store[i].filename = comic[p].filename

\* C4. Idempotence: an invocation that follows a successful one on the same
\* "today" has an empty range, issues no request and no insert, ends
\* successfully and leaves the table as it found it.
Idempotence ==
    \A p \in SeqProcs :
        (prev[p].outcome = "finished" /\ PastRange(p) /\ end[p] = prev[p].end) =>
            /\ end[p] < start[p]
            /\ log[p] = <<>>
            /\ store = snap[p]
            /\ pc[p] \in {"done", "finished"}

\* C4 witness: the second of two successful invocations on the same day, the
\* first of which stored rows.
SecondRunDone ==
    \E p \in SeqProcs :
        /\ prev[p].outcome = "finished" /\ prev[p].stored
        /\ pc[p] = "finished"
        /\ end[p] = prev[p].end

\* The invocation found the table empty, today was T = end[p] both times it
\* was read, and the invocation ended without a failure.
BootstrapDone(p) ==
    /\ pc[p] = "finished"
    /\ latest[p] = NoDate
    /\ snap[p] = <<>>
    /\ start[p] = end[p] - BootstrapDays + 1

\* C5 as stated: a failure-free invocation on an empty table computes the range
\* [T-10 .. T] and issues exactly 11 day-fetches, one per date, ascending.
BootstrapElevenDates ==
    \A p \in SeqProcs :
        BootstrapDone(p) =>
            /\ DatesOf(p, "fetch") = DaysFromTo(end[p] - 10, end[p])
            /\ Len(DatesOf(p, "fetch")) = 11

\* C5 as amended: a failure-free invocation on an empty table computes the
\* range [T-9 .. T] and issues exactly 10 day-fetches, one per date, ascending.
BootstrapTenDates ==
    \A p \in SeqProcs :
        BootstrapDone(p) =>
            /\ DatesOf(p, "fetch") = DaysFromTo(end[p] - 9, end[p])
            /\ Len(DatesOf(p, "fetch")) = 10
            /\ DatesIn(store) = (end[p] - 9)..end[p]

\* C5 witness: a failure-free bootstrap has ended.
BootstrapFinished == \E p \in SeqProcs : BootstrapDone(p)

\* The dates of the operations op of invocation p that succeeded, in order.
OkDatesOf(p, op) ==
    LET sel == SelectSeq(log[p], LAMBDA e : e[1] = op /\ e[3]) IN
    [i \in 1..Len(sel) |-> sel[i][2]]

\* C6. Commit only after full success: every insert of a date D comes right
\* after the successful day-fetch, parse and download of D, in that order; the
\* rows an invocation has added are exactly its successful inserts; and when
\* the fetch, the parse (no marker element) or the download of D fails, no row
\* for D is stored and the invocation is aborted.
CommitAfterSuccess ==
    \A p \in SeqProcs :
        /\ \A i \in 1..Len(log[p]) :
              log[p][i][1] = "insert" =>
                  /\ i >= 4
                  /\ log[p][i - 3] = <<"fetch", log[p][i][2], TRUE>>
                  /\ log[p][i - 2] = <<"parse", log[p][i][2], TRUE>>
                  /\ log[p][i - 1] = <<"download", log[p][i][2], TRUE>>
        /\ LET added == OkDatesOf(p, "insert") IN
              /\ Len(store) = Len(snap[p]) + Len(added)
              /\ SubSeq(store, 1, Len(snap[p])) = snap[p]
              /\ \A k \in 1..Len(added) :
                    FromIsoFormat(store[Len(snap[p]) + k].pubdate) = added[k]
        /\ \A i \in 1..Len(log[p]) :
              (log[p][i][1] \in {"fetch", "parse", "download"} /\ ~log[p][i][3]) =>
                  /\ log[p][i][2] \notin DatesIn(store)
                  /\ pc[p] = "aborted"

\* C6 witness: after at least one commit, a day page without the marker
\* element ended the invocation.
ParseErrorAfterCommit ==
    \E p \in SeqProcs :
        /\ pc[p] = "aborted" /\ err[p] = "IndexError"
        /\ Len(OkDatesOf(p, "insert")) >= 1
        /\ PubDate(p) \notin DatesIn(store)

\* C7. No feed on failed sync: an invocation that has written the feed file
\* completed its whole range without a failure first, and an aborted
\* invocation has not opened the feed file.
NoFeedOnFailedSync ==
    \A p \in SeqProcs :
        /\ wrote[p] =>
              /\ err[p] = ""
              /\ pc[p] = "finished"
              /\ \A i \in 1..Len(log[p]) : log[p][i][3]
              /\ OkDatesOf(p, "insert") = DaysFromTo(start[p], end[p])
        /\ pc[p] = "aborted" => (err[p] # "" /\ ~wrote[p])

\* C7 witness: an aborted invocation left the feed of an earlier one in place.
AbortedKeepsOldFeed ==
    \E p \in SeqProcs :
        /\ pc[p] = "aborted" /\ ~wrote[p]
        /\ prev[p].outcome = "finished"
        /\ feedFile # <<>>

\* C8. Feed correctness: the feed written for a table of N rows has min(N, 10)
\* items, in strictly descending order of pubdate; they are the rows with the
\* greatest pubdates, and each item's image source is the base URL, "/" and
\* the file name of the row of that pubdate.
FeedCorrect ==
    \A p \in SeqProcs :
        pc[p] = "finished" =>
            LET f   == feedFile
                N   == Len(store)
                fed == {f[i].pubdate : i \in 1..Len(f)}
            IN /\ Len(f) = IF N < 10 THEN N ELSE 10
               /\ \A i \in 1..(Len(f) - 1) : f[i].pubdate > f[i + 1].pubdate
               /\ fed \subseteq DatesIn(store)
               /\ \A d \in DatesIn(store) \ fed : \A e \in fed : d < e
               /\ \A i \in 1..Len(f) :
                     \E k \in 1..N :
                         /\ store[k].pubdate = IsoFormat(f[i].pubdate)
                         /\ f[i].description.src = BaseUrl \o <<47>> \o store[k].filename

\* C8 witness: a feed written for a table of more than ten rows.
FeedOfLongTable ==
    \E p \in SeqProcs :
        /\ pc[p] = "finished"
        /\ Len(store) > 10
        /\ Len(feedFile) = 10

\* C9. latestDate: what latest_date_in_db returned is the maximum pubdate of
\* the rows stored when it was called, and absence when there were none.
LatestDateCorrect ==
    \A p \in SeqProcs :
        pc[p] \notin {"idle", "update"} =>
            latest[p] = IF snap[p] = <<>> THEN NoDate
                        ELSE SomeDate(MaxDate(DatesIn(snap[p])))

\* C9 witness: the latest date was read from a table whose rows span the end
\* of a month.
LatestOfSeveralRows ==
    \E p \in SeqProcs :
        /\ pc[p] = "range"
        /\ Len(snap[p]) >= 2
        /\ \E i, j \in 1..Len(snap[p]) :
              SubSeq(snap[p][i].pubdate, 6, 7) # SubSeq(snap[p][j].pubdate, 6, 7)

\* C10. No-op when up to date: an invocation that found a latest stored
\* pubdate at or after today issues no day-fetch, no download and no insert,
\* ends successfully and leaves the table and the images as it found them.
NoOpWhenUpToDate ==
    \A p \in SeqProcs :
        (PastRange(p) /\ latest[p] # NoDate /\ latest[p][1] >= end[p]) =>
            /\ n[p] = 0
            /\ log[p] = <<>>
            /\ store = snap[p]
            /\ pc[p] \in {"done", "finished"}

\* C10 witness: an invocation has ended on a day before the latest stored one.
RunBehindLatest ==
    \E p \in SeqProcs :
        /\ pc[p] = "finished"
        /\ latest[p] # NoDate
        /\ latest[p][1] > end[p]

\* The four operations of one date, all successful, in the order of
\* update_comic_by_pubdate.
DayOps(d) == <<<<"fetch", d, TRUE>>, <<"parse", d, TRUE>>,
               <<"download", d, TRUE>>, <<"insert", d, TRUE>>>>

\* The operations of a failure-free invocation over the dates a..b.
RECURSIVE RangeOps(_, _)
RangeOps(a, b) == IF b < a THEN <<>> ELSE RangeOps(a, b - 1) \o DayOps(b)

\* C11. Exactly-once per date in order: an invocation that has gone through
\* its loop without a failure has issued, for each date from the day after the
\* latest stored date (the bootstrap start on an empty table) to today, one
\* day-page GET, one image GET and one insert, the dates ascending and all
\* operations of a date before the fetch of the next; and nothing else.
ExactlyOncePerDate ==
    \A p \in SeqProcs :
        pc[p] \in {"done", "finished"} =>
            LET first == IF latest[p] = NoDate THEN start[p] ELSE latest[p][1] + 1
            IN /\ log[p] = RangeOps(first, end[p])
               /\ \A d \in first..end[p] :
                     /\ Len(SelectSeq(DatesOf(p, "fetch"), LAMBDA x : x = d)) = 1
                     /\ Len(SelectSeq(DatesOf(p, "download"), LAMBDA x : x = d)) = 1
                     /\ Len(SelectSeq(DatesOf(p, "insert"), LAMBDA x : x = d)) = 1

\* C11 witness: a failure-free invocation over several dates of a table that
\* was not empty.
SeveralDatesAdded ==
    \E p \in SeqProcs :
        /\ pc[p] = "finished"
        /\ latest[p] # NoDate
        /\ end[p] >= latest[p][1] + 3

\* C12. Dimensions omitted if absent: in a feed that has been written, the
\* image tag of a date whose page had no width attribute has no width, and
\* the tag of a date whose page had no height attribute has no height.
DimensionsOmittedIfAbsent ==
    \A p \in SeqProcs :
        pc[p] = "finished" =>
            \A i \in 1..Len(feedFile) :
                LET el == OriginPage(feedFile[i].pubdate) IN
                /\ el.width = None => feedFile[i].description.w = <<>>
                /\ el.height = None => feedFile[i].description.h = <<>>

\* C13. Title normalization: no row of the table has an empty title, and the
\* row of a date whose caption is empty once the " - ..." suffix is stripped
\* has the placeholder "-" as its title.
TitleNormalized ==
    \A i \in 1..Len(store) :
        /\ store[i].title # <<>>
        /\ StripSuffix(OriginPage(FromIsoFormat(store[i].pubdate)).alt) = <<>>
              => store[i].title = <<45>>

\* C13 witness: the row of a date with an empty caption is stored.
EmptyCaptionStored ==
    \E i \in 1..Len(store) :
        /\ OriginPage(FromIsoFormat(store[i].pubdate)).alt = <<32, 45, 32, 68>>
        /\ store[i].title = <<45>>

\* C14. Record immutability: every step (of a run that succeeds or is
\* aborted, of the feed build, of a new start) leaves every row already in
\* the table in its place with all its fields as they were: the table only
\* grows, at its end.
RecordsImmutable ==
    [][ /\ Len(store') >= Len(store)
        /\ SubSeq(store', 1, Len(store)) = store ]_vars

\* C14 witness: after an aborted invocation that had stored rows, a later one
\* has added rows behind the rows it found and has built the feed.
RowsKeptAcrossRuns ==
    \E p \in SeqProcs :
        /\ pc[p] = "finished"
        /\ prev[p].outcome = "aborted" /\ prev[p].stored
        /\ Len(snap[p]) >= 1
        /\ Len(store) > Len(snap[p])
        /\ SubSeq(store, 1, Len(snap[p])) = snap[p]

\* C15. No future dates: every row's pubdate is at or before today, and every
\* operation of an invocation (fetch, download, insert) is on a date at or
\* before the today it read for its range.
NoFutureDates ==
    /\ \A i \in 1..Len(store) : FromIsoFormat(store[i].pubdate) <= today
    /\ \A p \in SeqProcs :
          \A i \in 1..Len(log[p]) : log[p][i][2] <= end[p]

\* C15 witness: the row of today has been stored by an invocation that ended.
TodayStored ==
    \E p \in SeqProcs :
        /\ pc[p] = "finished"
        /\ Len(OkDatesOf(p, "insert")) >= 1
        /\ \E i \in 1..Len(store) : FromIsoFormat(store[i].pubdate) = today

\* C16. Concurrent invocations: with two invocations side by side the table
\* never holds two rows of one file name; an invocation ended by the
\* constraint error was refused the insert of a date the other invocation had
\* stored, and no row was changed by it: the rows each invocation found are
\* still the first rows of the table, and the table holds one row for each
\* successful insert.
ConcurrentInsertsCollide ==
    /\ \A i, j \in 1..Len(store) : i # j => store[i].filename # store[j].filename
    /\ Len(store) = Len(OkDatesOf(1, "insert")) + Len(OkDatesOf(2, "insert"))
    /\ \A p \in Procs :
          /\ Len(snap[p]) <= Len(store) /\ SubSeq(store, 1, Len(snap[p])) = snap[p]
          /\ err[p] = "IntegrityError" =>
                /\ pc[p] = "aborted"
                /\ log[p][Len(log[p])] = <<"insert", PubDate(p), FALSE>>
                /\ \E q \in Procs \ {p} :
                      \E k \in 1..Len(log[q]) : log[q][k] = <<"insert", PubDate(p), TRUE>>
                /\ Len(SelectSeq(store, LAMBDA r : r.filename = comic[p].filename)) = 1

\* C16 witness: both invocations computed the same range and fetched the same
\* date; one stored it and the other was ended by the constraint error.
SameDateFetchedTwice ==
    \E p \in Procs : \E q \in Procs \ {p} :
        /\ start[p] = start[q] /\ end[p] = end[q]
        /\ err[p] = "IntegrityError"
        /\ \E k \in 1..Len(log[q]) : log[q][k] = <<"fetch", PubDate(p), TRUE>>
        /\ \E k \in 1..Len(log[p]) : log[p][k] = <<"fetch", PubDate(p), TRUE>>
        /\ \E k \in 1..Len(log[q]) : log[q][k] = <<"insert", PubDate(p), TRUE>>

\* The minimum of a non-empty set of dates.
MinDate(S) == CHOOSE d \in S : \A e \in S : d <= e

\* C17. Gap-free store: from an empty store, after any sequence of sequential
\* invocations with failures at any step and a clock that never goes back,
\* the stored pubdates are a contiguous run of calendar days: every day from
\* the earliest to the latest stored pubdate has a row.
GapFreeStore ==
    store # <<>> =>
        \A d \in MinDate(DatesIn(store))..MaxDate(DatesIn(store)) : d \in DatesIn(store)

\* C17 witness: an invocation that followed an aborted one which had stored
\* rows has finished on a later day, so the table joins the rows of two
\* invocations over more than one day.
StoreJoinsTwoRuns ==
    \E p \in SeqProcs :
        /\ pc[p] = "finished"
        /\ prev[p].outcome = "aborted" /\ prev[p].stored
        /\ Len(OkDatesOf(p, "insert")) >= 2
        /\ MaxDate(DatesIn(store)) > MaxDate(DatesIn(snap[p])) + 1

\* C18. Post-condition of a successful run: an invocation that found the
\* table empty or its latest pubdate before today, and got through its loop
\* without a failure, leaves latest_date_in_db equal to the today it read for
\* its range, and a row for every date of that range.
SuccessfulRunPostcondition ==
    \A p \in SeqProcs :
        (/\ pc[p] \in {"done", "finished"}
         /\ (latest[p] = NoDate \/ latest[p][1] < end[p])) =>
            /\ LatestDateInDb(store) = SomeDate(end[p])
            /\ \A d \in start[p]..end[p] : d \in DatesIn(store)
            /\ start[p] <= end[p]

\* C18 witness: an invocation that found rows older than today has got
\* through its loop and stored more than one date.
CaughtUpRun ==
    \E p \in SeqProcs :
        /\ pc[p] = "done"
        /\ latest[p] # NoDate /\ latest[p][1] < end[p]
        /\ start[p] < end[p]
        /\ LatestDateInDb(store) = SomeDate(end[p])

\* C19. Identity order: under sequential invocations the ids of the rows are
\* distinct and increase in insertion order, and insertion order is ascending
\* pubdate: of any two rows the one of the smaller id has the earlier pubdate.
IdentityOrder ==
    /\ \A i, j \in 1..Len(store) :
          i < j => /\ store[i].id < store[j].id
                   /\ FromIsoFormat(store[i].pubdate) < FromIsoFormat(store[j].pubdate)
    /\ \A i, j \in 1..Len(store) :
          store[i].id < store[j].id =>
              FromIsoFormat(store[i].pubdate) < FromIsoFormat(store[j].pubdate)
    /\ \A i \in 1..Len(store) : store[i].id < nextId

\* C19 witness: the table holds the rows of a whole bootstrap and a row of a
\* later invocation.
RowsOfLaterRun ==
    \E p \in SeqProcs :
        /\ Len(snap[p]) >= BootstrapDays
        /\ Len(store) > Len(snap[p])
        /\ store[Len(store)].id > snap[p][Len(snap[p])].id

====
